---- MODULE Spec2Model ----
(***************************************************************************)
(* Levitate: an audio-to-cover-art service (src/levitate.py, src/server.py) *)
(*                                                                         *)
(* Three specifications over one set of variables:                         *)
(*   SpecClassify  the pure pipeline  analyze_audio labels -> build_prompt *)
(*   SpecStore     POST /upload, GET /music, GET /music/play/{key}         *)
(*   Spec          POST /generate, one pipeline per concurrent request     *)
(*                                                                         *)
(* Numbers: real-valued features are scaled to integers.  rms, zcr and the *)
(* harmonic/percussive energies are in thousandths, centroid and contrast  *)
(* in units, the raw tempo in hundredths of a BPM.                          *)
(* Strings that the code inspects character by character (file names and   *)
(* storage keys) are sequences of one-character strings.                   *)
(* An optional value (Python None or an unset local) is the empty set, a   *)
(* present value v is {v}.                                                 *)
(***************************************************************************)
EXTENDS Integers, Sequences, FiniteSets, TLC

VARIABLES
    vec,        \* SpecClassify: the measured feature vector (lines 46-55)
    features,   \* SpecClassify: the dict analyze_audio returns, {} before
    promptText, \* SpecClassify: the string build_prompt returns, {} before
    srcBucket,  \* S3_BUCKET: key -> [size, last_modified]
    coverBucket,\* S3_COVER_BUCKET: image key -> image bytes
    now,        \* the wall clock, in whole seconds
    resp,       \* SpecStore: the response of the last handled call
    req,        \* Spec: per /generate request, its locals and progress
    tmpFiles    \* Spec: the temporary files that exist, by owning request

vars == <<vec, features, promptText, srcBucket, coverBucket, now, resp, req, tmpFiles>>

----------------------------------------------------------------------------
(* Bounds of the model *)

NumReqs == 2
MaxTime == 1
NumUUID == 2

(* Program constants *)

RMS_LOW == 30
RMS_MEDIUM == 60
CENTROID_WARM == 2000
CONTRAST_TENSE == 25
ZCR_TENSE == 100
CENTROID_BRIGHT == 3000
MAX_FILE_SIZE == 5 * 1024 * 1024
COVER_URL_TTL == 604800
PLAY_URL_TTL == 3600

----------------------------------------------------------------------------
(* analyze_audio: the labels computed from the measured features *)

EnergyStrictMutant(v) ==
    IF v.rms <= RMS_LOW /\ v.percussive_energy < v.harmonic_energy THEN "low"
    ELSE IF v.rms <= RMS_MEDIUM THEN "medium"
    ELSE "high"

Energy(v) ==
    IF v.rms < RMS_LOW /\ v.percussive_energy < v.harmonic_energy THEN "low"
    ELSE IF v.rms < RMS_MEDIUM THEN "medium"
    ELSE "high"

Mood(v) ==
    IF v.harmonic_energy > v.percussive_energy /\ v.centroid < CENTROID_WARM
        THEN "emotional / warm"
    ELSE IF v.contrast > CONTRAST_TENSE /\ v.zcr > ZCR_TENSE
        THEN "tense / aggressive"
    ELSE IF v.centroid > CENTROID_BRIGHT
        THEN "bright / uplifting"
    ELSE "dark / cinematic"

\* round(float(tempo), 1): hundredths -> tenths (the inputs hold no exact half)
Round1(h) == (h + 5) \div 10

analyze_audio(v) ==
    [tempo    |-> Round1(v.tempo),
     energy   |-> Energy(v),
     mood     |-> Mood(v),
     rms      |-> v.rms,
     centroid |-> v.centroid]

----------------------------------------------------------------------------
(* build_prompt *)

FallbackPhrase == "cinematic lighting"

Lighting(energy) ==
    CASE energy = "low"    -> "soft ambient light"
      [] energy = "medium" -> "cinematic balanced lighting"
      [] energy = "high"   -> "dramatic volumetric lighting"

MoodStyle(mood) ==
    CASE mood = "emotional / warm"   -> "warm sunset tones, soft glow, peaceful atmosphere"
      [] mood = "dark / cinematic"   -> "moody shadows, deep contrast"
      [] mood = "bright / uplifting" -> "vibrant colors, hopeful sky"
      [] OTHER                       -> FallbackPhrase

\* f"{tempo}" of a float rounded to one decimal: whole part, ".", one digit
FormatTempo(t) == <<t \div 10, ".", t % 10>>

build_prompt(f) ==
    [head       |-> "GAME CONCEPT ART of a vast open fantasy landscape.",
     atmosphere |-> MoodStyle(f.mood),
     tempo      |-> FormatTempo(f.tempo),
     lighting   |-> Lighting(f.energy),
     tail       |-> "Unreal Engine 5 style, AAA environment concept art. Cinematic wide shot, ultra detailed, no text, no watermark."]

----------------------------------------------------------------------------
(* Strings as sequences of characters *)

LowerChar(c) ==
    CASE c = "A" -> "a"
      [] c = "M" -> "m"
      [] c = "P" -> "p"
      [] OTHER   -> c

\* str.lower()
Lower(s) == [i \in 1..Len(s) |-> LowerChar(s[i])]

\* str.endswith(suffix)
EndsWith(s, suffix) ==
    /\ Len(s) >= Len(suffix)
    /\ SubSeq(s, Len(s) - Len(suffix) + 1, Len(s)) = suffix

DotMp3 == <<".", "m", "p", "3">>

\* the code point of a character (the object store lists keys in byte order)
Ord(c) ==
    CASE c = "." -> 46
      [] c = "/" -> 47
      [] c = "3" -> 51
      [] c = "A" -> 65
      [] c = "M" -> 77
      [] c = "P" -> 80
      [] c = "_" -> 95
      [] c = "a" -> 97
      [] c = "b" -> 98
      [] c = "m" -> 109
      [] c = "p" -> 112
      [] c = "v" -> 118
      [] c = "w" -> 119

KeyLess(a, b) ==
    \E i \in 1..(Len(a) + 1) :
        /\ i <= Len(b)
        /\ \A j \in 1..(i - 1) : a[j] = b[j]
        /\ (i = Len(a) + 1 \/ Ord(a[i]) < Ord(b[i]))

----------------------------------------------------------------------------
(* The object store *)

S3_BUCKET == "music-upload-bucket1"
S3_COVER_BUCKET == "output-covers"

EmptyBucket == [k \in {} |-> {}]

\* s3.upload_fileobj / s3.put_object: create or overwrite one object
PutObject(bucket, key, obj) ==
    [k \in (DOMAIN bucket) \cup {key} |-> IF k = key THEN obj ELSE bucket[k]]

\* s3.generate_presigned_url('get_object', ...)
Presign(bucket, key, ttl) == [bucket |-> bucket, key |-> key, expires_in |-> ttl]

----------------------------------------------------------------------------
(* POST /upload *)

Filenames ==
    { <<"a", ".", "m", "p", "3">>,
      <<"a", ".", "M", "P", "3">>,
      <<"a", ".", "w", "a", "v">>,
      <<"m", "p", "3">> }

Sizes == { 1, MAX_FILE_SIZE, MAX_FILE_SIZE + 1, 6 * 1024 * 1024 }

\* line 180
Supported(filename) == EndsWith(Lower(filename), DotMp3)

TooLargeAtCapMutant(file_size) == file_size >= MAX_FILE_SIZE

\* line 188
TooLarge(file_size) == file_size > MAX_FILE_SIZE

UploadResponse(filename, file_size, status, body, store_calls, cause) ==
    [endpoint    |-> "POST /upload",
     filename    |-> filename,
     file_size   |-> file_size,
     status      |-> status,
     body        |-> body,
     store_calls |-> store_calls,
     cause       |-> cause]

upload_mp3(filename, file_size) ==
    /\ IF ~Supported(filename)
       THEN /\ resp' = UploadResponse(filename, file_size, 400,
                           [detail |-> "Only .mp3 files are supported"], 0, "validation")
            /\ UNCHANGED srcBucket
       ELSE IF TooLarge(file_size)
       THEN /\ resp' = UploadResponse(filename, file_size, 400,
                           [detail |-> "File too large. Maximum size is 5MB"], 0, "validation")
            /\ UNCHANGED srcBucket
       ELSE \/ /\ srcBucket' = PutObject(srcBucket, filename,
                                   [size |-> file_size, last_modified |-> now])
               /\ resp' = UploadResponse(filename, file_size, 200,
                              [status |-> "uploaded", s3_key |-> filename], 1, "none")
            \/ /\ resp' = UploadResponse(filename, file_size, 500,
                              [detail |-> "S3 upload error"], 1, "collaborator")
               /\ UNCHANGED srcBucket
    /\ UNCHANGED <<vec, features, promptText, coverBucket, now, req, tmpFiles>>

----------------------------------------------------------------------------
(* GET /music *)

Mp3EntriesNoLowerMutant(bucket) ==
    { [key |-> k, size |-> bucket[k].size, last_modified |-> bucket[k].last_modified] :
        k \in { x \in DOMAIN bucket : EndsWith(x, DotMp3) } }

\* lines 40-46: the listed objects whose key ends in .mp3, as response entries
Mp3Entries(bucket) ==
    { [key |-> k, size |-> bucket[k].size, last_modified |-> bucket[k].last_modified] :
        k \in { x \in DOMAIN bucket : EndsWith(Lower(x), DotMp3) } }

\* line 49: a stable sort, newest first, of the entries in listing (key) order
ComesFirst(e, f) ==
    \/ e.last_modified > f.last_modified
    \/ e.last_modified = f.last_modified /\ KeyLess(e.key, f.key)

RECURSIVE SortFiles(_)
SortFiles(entries) ==
    IF entries = {} THEN <<>>
    ELSE LET first == CHOOSE e \in entries : \A f \in entries \ {e} : ComesFirst(e, f)
         IN  <<first>> \o SortFiles(entries \ {first})

list_music ==
    /\ \/ resp' = [endpoint |-> "GET /music",
                   status   |-> 200,
                   body     |-> [files |-> SortFiles(Mp3Entries(srcBucket))],
                   cause    |-> "none"]
       \/ resp' = [endpoint |-> "GET /music",
                   status   |-> 200,
                   body     |-> [files |-> <<>>, error |-> "S3 list error"],
                   cause    |-> "collaborator"]
    /\ UNCHANGED <<vec, features, promptText, srcBucket, coverBucket, now, req, tmpFiles>>

----------------------------------------------------------------------------
(* GET /music/play/{s3_key} *)

get_music_url(s3_key) ==
    /\ \/ resp' = [endpoint |-> "GET /music/play",
                   status   |-> 200,
                   body     |-> [url |-> Presign(S3_BUCKET, s3_key, PLAY_URL_TTL)],
                   cause    |-> "none"]
       \/ resp' = [endpoint |-> "GET /music/play",
                   status   |-> 200,
                   body     |-> [error |-> "presign error"],
                   cause    |-> "collaborator"]
    /\ UNCHANGED <<vec, features, promptText, srcBucket, coverBucket, now, req, tmpFiles>>

----------------------------------------------------------------------------
(* The clock *)

Tick ==
    /\ now < MaxTime
    /\ now' = now + 1
    /\ UNCHANGED <<vec, features, promptText, srcBucket, coverBucket, resp, req, tmpFiles>>

----------------------------------------------------------------------------
(* upload_image_to_s3: the name of the stored image *)

LastIndexOf(s, c) ==
    LET hits == { i \in 1..Len(s) : s[i] = c }
    IN  IF hits = {} THEN 0 ELSE CHOOSE i \in hits : \A j \in hits : j <= i

\* os.path.splitext(p)[0]: cut at the last dot of the last path component,
\* unless only dots precede it there
SplitextRoot(p) ==
    LET sep == LastIndexOf(p, "/")
        dot == LastIndexOf(p, ".")
    IN  IF dot > sep /\ \E i \in (sep + 1)..(dot - 1) : p[i] # "."
        THEN SubSeq(p, 1, dot - 1)
        ELSE p

\* the decimal digits of a small number, as strftime and hex print them
Digit(n) == <<"0", "1", "2", "3", "4", "5", "6", "7", "8", "9">>[n + 1]

\* lines 146-149
ImageKey(original_key, timestamp, unique_id) ==
    SplitextRoot(original_key) \o <<"_", Digit(timestamp), "_", Digit(unique_id), ".png">>

----------------------------------------------------------------------------
(* POST /generate *)

Reqs == 1..NumReqs
UUIDs == 1..NumUUID

MP3_A == <<"a", ".", "m", "p", "3">>
MP3_A_UPPER == <<"a", ".", "M", "P", "3">>

\* the keys callers ask for: one stored object, one absent key
RequestKeys == { MP3_A, MP3_A_UPPER }

\* the source bucket after one upload of a.mp3
InitialSource == PutObject(EmptyBucket, MP3_A, [size |-> 1, last_modified |-> 0])

\* what the analysis can measure on a stored track
SampleVectors ==
    { [rms |-> 20, harmonic_energy |-> 500, percussive_energy |-> 100,
       centroid |-> 1500, contrast |-> 10, zcr |-> 20, tempo |-> 9000],
      [rms |-> 80, harmonic_energy |-> 100, percussive_energy |-> 500,
       centroid |-> 1000, contrast |-> 30, zcr |-> 150, tempo |-> 14000] }

StageOrder ==
    <<"Received", "Fetching", "Analyzing", "PromptBuilt", "Generating", "Uploading", "Completed">>

NewRequest ==
    [stages    |-> <<>>,
     s3_key    |-> {},
     features  |-> {},
     prompt    |-> {},
     image     |-> {},
     image_key |-> {},
     calls     |-> [fetch |-> 0, generate |-> 0, store |-> 0, presign |-> 0],
     response  |-> {}]

Stage(r) == IF req[r].stages = <<>> THEN "Idle" ELSE req[r].stages[Len(req[r].stages)]

The(opt) == CHOOSE x \in opt : TRUE

FailRequestPartialMutant(rec, err) ==
    [rec EXCEPT !.stages = Append(@, "Failed"),
                !.response = {[status |-> 500,
                               body   |-> [detail |-> err, features |-> rec.features,
                                           prompt |-> rec.prompt]]}]

FailRequestRetryMutant(rec, err) ==
    [rec EXCEPT !.stages = SubSeq(@, 1, Len(@) - 1)]

\* lines 236-238: any exception ends the request with a 500 carrying str(e)
FailRequest(rec, err) ==
    [rec EXCEPT !.stages = Append(@, "Failed"),
                !.response = {[status |-> 500, body |-> [detail |-> err]]}]

\* lines 207-208
GV_Receive(r, key) ==
    /\ Stage(r) = "Idle"
    /\ req' = [req EXCEPT ![r].stages = <<"Received">>, ![r].s3_key = {key}]
    /\ UNCHANGED <<vec, features, promptText, srcBucket, coverBucket, now, resp, tmpFiles>>

\* lines 211-213: the temporary file is created, then the object is downloaded
GV_Fetch(r) ==
    /\ Stage(r) = "Received"
    /\ tmpFiles' = tmpFiles \cup {r}
    /\ LET entered == [req[r] EXCEPT !.stages = Append(@, "Fetching"),
                                     !.calls.fetch = @ + 1]
       IN  IF The(req[r].s3_key) \in DOMAIN srcBucket
           THEN \/ req' = [req EXCEPT ![r] = entered]
                \/ req' = [req EXCEPT ![r] = FailRequest(entered, "S3 download error")]
           ELSE req' = [req EXCEPT ![r] = FailRequest(entered, "Not Found")]
    /\ UNCHANGED <<vec, features, promptText, srcBucket, coverBucket, now, resp>>

\* line 216
GV_Analyze(r) ==
    /\ Stage(r) = "Fetching"
    /\ LET entered == [req[r] EXCEPT !.stages = Append(@, "Analyzing")]
       IN  \/ \E v \in SampleVectors :
                 req' = [req EXCEPT ![r] = [entered EXCEPT !.features = {analyze_audio(v)}]]
           \/ req' = [req EXCEPT ![r] = FailRequest(entered, "decode error")]
    /\ UNCHANGED <<vec, features, promptText, srcBucket, coverBucket, now, resp, tmpFiles>>

\* line 219
GV_BuildPrompt(r) ==
    /\ Stage(r) = "Analyzing"
    /\ req' = [req EXCEPT ![r].stages = Append(@, "PromptBuilt"),
                          ![r].prompt = {build_prompt(The(req[r].features))}]
    /\ UNCHANGED <<vec, features, promptText, srcBucket, coverBucket, now, resp, tmpFiles>>

\* lines 222-224: generate_image, then os.remove(tmp_path)
GV_Generate(r) ==
    /\ Stage(r) = "PromptBuilt"
    /\ LET entered == [req[r] EXCEPT !.stages = Append(@, "Generating"),
                                     !.calls.generate = @ + 1]
       IN  \/ /\ req' = [req EXCEPT ![r] = [entered EXCEPT !.image = {[by |-> r]}]]
              /\ tmpFiles' = tmpFiles \ {r}
           \/ /\ req' = [req EXCEPT ![r] = FailRequest(entered, "Bedrock error")]
              /\ UNCHANGED tmpFiles
    /\ UNCHANGED <<vec, features, promptText, srcBucket, coverBucket, now, resp>>

\* lines 228-234: upload_image_to_s3 (put_object, then the presigned URL), and
\* the response
GV_Upload(r) ==
    /\ Stage(r) = "Generating"
    /\ \E unique_id \in UUIDs :
         LET image_key == ImageKey(The(req[r].s3_key), now, unique_id)
             entered   == [req[r] EXCEPT !.stages = Append(@, "Uploading"),
                                         !.image_key = {image_key},
                                         !.calls.store = @ + 1]
             stored    == [entered EXCEPT !.calls.presign = @ + 1]
         IN  \/ /\ req' = [req EXCEPT ![r] = FailRequest(entered, "S3 put error")]
                /\ UNCHANGED coverBucket
             \/ /\ coverBucket' = PutObject(coverBucket, image_key, The(req[r].image))
                /\ \/ req' = [req EXCEPT ![r] = FailRequest(stored, "presign error")]
                   \/ req' = [req EXCEPT ![r] =
                                [stored EXCEPT
                                   !.stages = Append(@, "Completed"),
                                   !.response =
                                      {[status |-> 200,
                                        body   |-> [features  |-> The(req[r].features),
                                                    prompt    |-> The(req[r].prompt),
                                                    image_url |-> Presign(S3_COVER_BUCKET,
                                                                     image_key, COVER_URL_TTL)]]}]]
    /\ UNCHANGED <<vec, features, promptText, srcBucket, now, resp, tmpFiles>>

----------------------------------------------------------------------------
(* The classifier and the prompt builder on their own *)

RmsValues == { 20, 29, 30, 31, 59, 60, 61, 80 }
EnergyValues == { 100, 500 }
CentroidValues == { 1000, 1999, 2000, 2001, 2999, 3000, 3001 }
ContrastValues == { 10, 25, 26, 30 }
ZcrValues == { 20, 100, 101, 150 }
TempoValues == { 9000, 13996 }

Vectors ==
    [rms : RmsValues, harmonic_energy : EnergyValues, percussive_energy : EnergyValues,
     centroid : CentroidValues, contrast : ContrastValues, zcr : ZcrValues,
     tempo : TempoValues]

Classify ==
    /\ features = {}
    /\ features' = {analyze_audio(vec)}
    /\ UNCHANGED <<vec, promptText, srcBucket, coverBucket, now, resp, req, tmpFiles>>

Synthesize ==
    /\ features # {}
    /\ promptText = {}
    /\ promptText' = {build_prompt(The(features))}
    /\ UNCHANGED <<vec, features, srcBucket, coverBucket, now, resp, req, tmpFiles>>

----------------------------------------------------------------------------
(* Specifications *)

NoResponse == [endpoint |-> "none", status |-> 0, cause |-> "none"]

ClassifierIdle ==
    /\ vec = CHOOSE v \in SampleVectors : v.rms = 20
    /\ features = {}
    /\ promptText = {}

PipelineIdle ==
    /\ req = [r \in Reqs |-> NewRequest]
    /\ tmpFiles = {}
    /\ coverBucket = EmptyBucket

Init ==
    /\ ClassifierIdle
    /\ PipelineIdle
    /\ srcBucket = InitialSource
    /\ now = 0
    /\ resp = NoResponse

Next ==
    \/ \E r \in Reqs, key \in RequestKeys : GV_Receive(r, key)
    \/ \E r \in Reqs : GV_Fetch(r)
    \/ \E r \in Reqs : GV_Analyze(r)
    \/ \E r \in Reqs : GV_BuildPrompt(r)
    \/ \E r \in Reqs : GV_Generate(r)
    \/ \E r \in Reqs : GV_Upload(r)
    \/ Tick

Spec == Init /\ [][Next]_vars

InitStore ==
    /\ ClassifierIdle
    /\ PipelineIdle
    /\ srcBucket = EmptyBucket
    /\ now = 0
    /\ resp = NoResponse

NextStore ==
    \/ \E filename \in Filenames, file_size \in Sizes : upload_mp3(filename, file_size)
    \/ list_music
    \/ \E s3_key \in Filenames : get_music_url(s3_key)
    \/ Tick

SpecStore == InitStore /\ [][NextStore]_vars

InitClassify ==
    /\ vec \in Vectors
    /\ features = {}
    /\ promptText = {}
    /\ PipelineIdle
    /\ srcBucket = EmptyBucket
    /\ now = 0
    /\ resp = NoResponse

NextClassify == Classify \/ Synthesize

SpecClassify == InitClassify /\ [][NextClassify]_vars

----------------------------------------------------------------------------
(* Properties *)

Range(s) == { s[i] : i \in DOMAIN s }

IsPrefix(s, t) == Len(s) <= Len(t) /\ \A i \in 1..Len(s) : s[i] = t[i]

Finished(r) == Stage(r) \in {"Completed", "Failed"}

\* C1: when a /generate request has returned, by success or by failure at any
\* stage, the temporary audio file it created no longer exists.
C1_TempFileRemovedOnEveryExit ==
    \A r \in Reqs : Finished(r) => r \notin tmpFiles

ClassifierMoods ==
    {"emotional / warm", "tense / aggressive", "bright / uplifting", "dark / cinematic"}

\* C2: for a mood the classifier produced, the prompt carries that mood's own
\* atmosphere phrase, never the fallback phrase.
C2_ClassifierMoodNeverGetsFallback ==
    (promptText # {} /\ The(features).mood \in ClassifierMoods)
        => The(promptText).atmosphere # FallbackPhrase

GenerationFailed(r) ==
    LET st == req[r].stages
    IN  Len(st) >= 2 /\ st[Len(st)] = "Failed" /\ st[Len(st) - 1] = "Generating"

\* C3: a request whose image generation failed never enters Uploading (no put
\* to the output store, no presigned URL) and answers with a failure that
\* carries no features, prompt or image URL.
C3_GenerationFailureSkipsUpload ==
    \A r \in Reqs :
        GenerationFailed(r) =>
            /\ "Uploading" \notin Range(req[r].stages)
            /\ req[r].calls.store = 0
            /\ req[r].calls.presign = 0
            /\ \A k \in DOMAIN coverBucket : coverBucket[k].by # r
            /\ \E x \in req[r].response :
                  /\ req[r].response = {x}
                  /\ x.status \in 500..599
                  /\ DOMAIN x.body = {"detail"}

C3_Witness ==
    \E r \in Reqs : GenerationFailed(r) /\ req[r].features # {} /\ req[r].prompt # {}

\* C4: on every endpoint a validation failure answers 4xx and any other
\* failure (storage or remote error) answers 5xx; no collaborator failure is
\* answered with a success status.
C4_FailuresMapToErrorStatus ==
    /\ resp.cause = "validation"   => resp.status \in 400..499
    /\ resp.cause = "collaborator" => resp.status \in 500..599

\* the last four characters are not ".mp3" in any letter case
NotMp3Name(filename) ==
    \/ Len(filename) < 4
    \/ \E i \in 1..4 : LowerChar(filename[Len(filename) - 4 + i]) # DotMp3[i]

\* C5: an upload larger than the 5 MiB cap, or whose name does not end in .mp3,
\* is answered 400 without any call to the object store and leaves the source
\* bucket unchanged; an upload of exactly the cap size is not rejected.
C5_OversizeRejectedBeforeStorage ==
    [][\A filename \in Filenames, file_size \in Sizes :
          upload_mp3(filename, file_size) =>
             /\ (file_size > MAX_FILE_SIZE \/ NotMp3Name(filename))
                   => /\ resp'.status = 400
                      /\ resp'.cause = "validation"
                      /\ resp'.store_calls = 0
                      /\ srcBucket' = srcBucket
             /\ (file_size = MAX_FILE_SIZE /\ ~NotMp3Name(filename))
                   => /\ resp'.status # 400
                      /\ resp'.store_calls = 1
                      /\ (resp'.status = 200 =>
                            /\ filename \in DOMAIN srcBucket'
                            /\ srcBucket'[filename].size = MAX_FILE_SIZE)]_vars

C5_Witness ==
    /\ resp.endpoint = "POST /upload"
    /\ resp.file_size = 6 * 1024 * 1024
    /\ resp.filename = MP3_A
    /\ resp.status = 400
    /\ MP3_A \in DOMAIN srcBucket
    /\ srcBucket[MP3_A].size = MAX_FILE_SIZE

CallsMatchStages(r) ==
    LET st == Range(req[r].stages)
        c  == req[r].calls
    IN  /\ c.fetch    = (IF "Fetching"   \in st THEN 1 ELSE 0)
        /\ c.generate = (IF "Generating" \in st THEN 1 ELSE 0)
        /\ c.store    = (IF "Uploading"  \in st THEN 1 ELSE 0)
        /\ c.presign <= c.store

StagesInOrder(r) ==
    LET st == req[r].stages
    IN  \/ IsPrefix(st, StageOrder)
        \/ /\ Len(st) >= 3
           /\ st[Len(st)] = "Failed"
           /\ Len(st) - 1 < Len(StageOrder)
           /\ IsPrefix(SubSeq(st, 1, Len(st) - 1), StageOrder)

\* C6: within one request each collaborator operation is invoked at most
\* once, the stages run in the order Received, Fetching, Analyzing,
\* PromptBuilt, Generating, Uploading, the first failing stage ends the
\* request in Failed, and after Failed or Completed nothing more runs.
C6_StagesOnceInOrderNoRetry ==
    /\ [](\A r \in Reqs : StagesInOrder(r) /\ CallsMatchStages(r))
    /\ [][\A r \in Reqs :
            /\ IsPrefix(req[r].stages, req'[r].stages)
            /\ Finished(r) => req'[r] = req[r]]_vars

C6_Witness ==
    \E r1, r2 \in Reqs :
        /\ Stage(r1) = "Completed"
        /\ Stage(r2) = "Failed"
        /\ req[r2].calls.fetch = 1
        /\ req[r2].calls.generate = 0

\* C7: the labels equal those of the ordered first-match rules, every
\* comparison strict: energy is low iff rms < 0.03 and percussive < harmonic,
\* else medium iff rms < 0.06, else high; mood is emotional / warm iff
\* harmonic > percussive and centroid < 2000, else tense / aggressive iff
\* contrast > 25 and zcr > 0.1, else bright / uplifting iff centroid > 3000,
\* else dark / cinematic.
C7_LabelsFollowOrderedStrictRules ==
    features # {} =>
        LET f     == The(features)
            low   == vec.rms < 30 /\ vec.percussive_energy < vec.harmonic_energy
            med   == ~low /\ vec.rms < 60
            warm  == vec.harmonic_energy > vec.percussive_energy /\ vec.centroid < 2000
            tense == ~warm /\ vec.contrast > 25 /\ vec.zcr > 100
            brite == ~warm /\ ~tense /\ vec.centroid > 3000
        IN  /\ (f.energy = "low") <=> low
            /\ (f.energy = "medium") <=> med
            /\ (f.energy = "high") <=> (~low /\ ~med)
            /\ (f.mood = "emotional / warm") <=> warm
            /\ (f.mood = "tense / aggressive") <=> tense
            /\ (f.mood = "bright / uplifting") <=> brite
            /\ (f.mood = "dark / cinematic") <=> (~warm /\ ~tense /\ ~brite)
            /\ vec.rms = 30 => f.energy # "low"
            /\ vec.rms = 60 => f.energy = "high"
            /\ vec.centroid = 2000 => f.mood # "emotional / warm"
            /\ (vec.contrast = 25 \/ vec.zcr = 100) => f.mood # "tense / aggressive"
            /\ vec.centroid = 3000 => f.mood # "bright / uplifting"

C7_Witness ==
    /\ features # {}
    /\ vec.rms = 30
    /\ vec.percussive_energy < vec.harmonic_energy
    /\ vec.centroid = 3000
    /\ vec.contrast = 25
    /\ The(features).energy = "medium"
    /\ The(features).mood = "dark / cinematic"

Stored(r) == req[r].calls.presign = 1

\* C8: any two Uploading stages for the same source key write to different
\* keys of the output store.
C8_RegenerationsNeverShareAnImageKey ==
    \A r1, r2 \in Reqs :
        (r1 # r2 /\ Stored(r1) /\ Stored(r2) /\ req[r1].s3_key = req[r2].s3_key)
            => req[r1].image_key # req[r2].image_key

C10_FailedRequestLeavesStoresUnchanged ==
    /\ srcBucket = InitialSource
    /\ \A r \in Reqs :
          Stage(r) = "Failed" => \A k \in DOMAIN coverBucket : coverBucket[k].by # r

====
